---------------------------- MODULE Spec2Model ----------------------------
(***************************************************************************)
(* Model of function/push-gitlab-pending-jobs-metric.py: one invocation of *)
(* handler().  The invocation is sequential; every step of the model is    *)
(* one attempt of one remote call (SSM get_parameter, HTTP GET, ASG        *)
(* describe, CloudWatch put_metric_data) together with the code that runs  *)
(* between that call and the next one.  The remote services are the        *)
(* environment: the outcome of every attempt is chosen nondeterministically*)
(* from small sets.  The locals of a function that has returned stay in   *)
(* the state until the handler's next step, and are dropped then.          *)
(*                                                                         *)
(* Python dicts are records, lists are sequences, exceptions are records   *)
(* with an "exc" field ("none" for a normal return).  A header value is a  *)
(* sequence of text pieces in which "<" and ">" are pieces of their own,   *)
(* so that str.split works on it as it does on characters.  A datetime is  *)
(* a pair <<seconds, microseconds>>.                                       *)
(***************************************************************************)
EXTENDS Integers, Sequences, FiniteSets, TLC

VARIABLES
    pc,                     \* position of handler(): the remote call it is at
    error,                  \* the exception that left handler(), or "none"
    RUNNERS_PER_INSTANCE,   \* module global, line 15
    NARROW_TO_MEMBERSHIP,   \* module global, line 17
    tries,                  \* backoff: attempts made by the wrapper in progress
    wrap,                   \* the wrapped call last entered: its attempts, its end
    token,                  \* handler: token
    link,                   \* get_all_project_ids: link
    now,                    \* get_all_project_ids: now
    four_hours_ago,         \* get_all_project_ids: four_hours_ago
    total_numb_of_projects, \* get_all_project_ids: total_numb_of_projects
    project_ids,            \* get_all_project_ids: project_ids, then its caller's
    urls,                   \* the links get_all_project_ids has requested
    pages,                  \* the responses get_all_project_ids has received
    idx,                    \* get_all_pending_and_running_job_ids: loop position
    pending_jobs,           \* get_all_pending_and_running_job_ids: pending_jobs
    pending_job_ids,        \* get_all_pending_and_running_job_ids
    running_job_ids,        \* get_all_pending_and_running_job_ids
    job_log,                \* the job-listing calls made and what they returned
    n_pending_jobs,         \* handler: pending_jobs
    n_running_jobs,         \* handler: running_jobs
    result,                 \* get_asg_healthy_instances_in_service: result
    healthy_instances_in_service, \* handler
    runners_overall_load,   \* handler: a fraction [num, den] in lowest terms
    timestamp,              \* handler: timestamp
    put_requests,           \* every MetricData handed to put_metric_data
    published,              \* the samples the metrics backend accepted
    completed,              \* the stages that ended without error, in order
    calls                   \* how often each wrapped function was entered

vars == <<pc, error, RUNNERS_PER_INSTANCE, NARROW_TO_MEMBERSHIP, tries, wrap,
          token, link, now, four_hours_ago, total_numb_of_projects,
          project_ids, urls, pages, idx, pending_jobs, pending_job_ids, running_job_ids,
          job_log, n_pending_jobs, n_running_jobs, result,
          healthy_instances_in_service, runners_overall_load, timestamp,
          put_requests, published, completed, calls>>

---------------------------------------------------------------------------
(* Bounds of the model. *)

\* most pages a project listing has
MaxPages == 2
\* most projects on one page
MaxPerPage == 2
\* largest project id the platform holds
MaxProjectId == 2
\* most jobs one job listing returns
MaxJobs == 2
\* most instances in the autoscaling group
MaxInstances == 2

(* Configuration values tried for RUNNERS_PER_INSTANCE (int of an          *)
(* environment variable: any integer).                                     *)
RunnerCapacities == {0, 4}

---------------------------------------------------------------------------
(* Python helpers. *)

\* dict.get(key, default)
DictGet(d, key, default) == IF key \in DOMAIN d THEN d[key] ELSE default

\* list.index-like: position of the first piece equal to sep, 0 if none
RECURSIVE FirstIndex(_, _, _)
FirstIndex(s, sep, i) ==
    IF i > Len(s) THEN 0
    ELSE IF s[i] = sep THEN i ELSE FirstIndex(s, sep, i + 1)

\* str.split(sep): the list of the parts between the separators
RECURSIVE Split(_, _)
Split(s, sep) ==
    LET k == FirstIndex(s, sep, 1) IN
    IF k = 0 THEN <<s>>
    ELSE <<SubSeq(s, 1, k - 1)>> \o Split(SubSeq(s, k + 1, Len(s)), sep)

\* sum of a sequence of numbers
RECURSIVE SumSeq(_)
SumSeq(s) == IF s = <<>> THEN 0 ELSE s[1] + SumSeq(Tail(s))

\* the concatenation of a sequence of sequences
RECURSIVE Flatten(_)
Flatten(ss) == IF ss = <<>> THEN <<>> ELSE ss[1] \o Flatten(Tail(ss))

\* datetime comparison a > b
DatetimeAfter(a, b) == a[1] > b[1] \/ (a[1] = b[1] /\ a[2] > b[2])

\* datetime - timedelta(hours=h)
MinusHours(t, h) == <<t[1] - h * 3600, t[2]>>

---------------------------------------------------------------------------
(* The retry wrappers, lines 27-59. *)

\* line 11 with one attempt less
MAX_RETRIES_one_less == 8 - 1

\* line 11
MAX_RETRIES == 8

\* lines 27-28 with the comparison turned round
no_request_limit_exceeded_code_inverted(e) ==
    DictGet(DictGet(e.response, "Error", [Message |-> "none"]), "Code", "Unknown")
        = "RequestLimitExceeded"

(* Lines 27-28, the giveup predicate of the three SDK wrappers: the error's *)
(* code is not RequestLimitExceeded.                                       *)
no_request_limit_exceeded_code(e) ==
    DictGet(DictGet(e.response, "Error", [Message |-> "none"]), "Code", "Unknown")
        # "RequestLimitExceeded"

(* backoff.on_exception: after attempt n raised an exception.  An exception*)
(* that is not of the listed type is not caught; a caught one is raised    *)
(* again when giveup says so or when n is max_tries, and retried otherwise.*)
on_exception(caught, giveup, n, max_tries) ==
    IF ~caught THEN "raise"
    ELSE IF giveup \/ n = max_tries THEN "raise"
    ELSE "retry"

\* what get_parameter, put_metric_data, describe_auto_scaling_groups do
\* with outcome o of attempt n
SdkDecision(o, n) ==
    IF o.exc = "none" THEN "return"
    ELSE on_exception(o.exc = "ClientError",
                      IF o.exc = "ClientError"
                      THEN no_request_limit_exceeded_code(o) ELSE FALSE,
                      n, MAX_RETRIES)

\* what get_request does with outcome o of attempt n (no giveup predicate)
HttpDecision(o, n) ==
    IF o.exc = "none" THEN "return"
    ELSE on_exception(o.exc = "Timeout", FALSE, n, MAX_RETRIES)

\* an outcome without its payload
Raised(o) == IF o.exc = "none" THEN [exc |-> "none"] ELSE o

\* the record of the wrapped call in progress after outcome o with decision d
Wrapped(fn, o, d) ==
    [fn |-> fn,
     outcomes |-> (IF tries = 0 THEN <<>> ELSE wrap.outcomes) \o <<Raised(o)>>,
     end |-> IF d = "retry" THEN "retrying"
             ELSE IF d = "return" THEN "returned" ELSE "raised"]

\* the call counters after entering wrapped function fn at site
Entered(site) ==
    IF tries = 0 THEN [calls EXCEPT ![site] = @ + 1] ELSE calls

---------------------------------------------------------------------------
(* The environment: what the remote services may answer. *)

\* botocore ClientError responses, and an exception that is no ClientError
SdkErrors ==
    { [exc |-> "ClientError",
       response |-> [Error |-> [Code |-> "RequestLimitExceeded"]]],
      [exc |-> "ClientError",
       response |-> [Error |-> [Code |-> "AccessDeniedException"]]],
      [exc |-> "ClientError",
       response |-> [Error |-> [Message |-> "no code"]]],
      [exc |-> "ClientError",
       response |-> [ResponseMetadata |-> "no error"]],
      [exc |-> "EndpointConnectionError"] }

\* requests exceptions
HttpErrors == { [exc |-> "Timeout"], [exc |-> "ConnectionError"] }

SsmOutcomes ==
    { [exc |-> "none", value |-> [Parameter |-> [Value |-> "glpat"]]] }
    \cup SdkErrors

\* the set's elements as a sequence in ascending order
RECURSIVE Ascending(_)
Ascending(S) ==
    IF S = {} THEN <<>>
    ELSE LET m == CHOOSE x \in S : \A y \in S : x <= y
         IN <<m>> \o Ascending(S \ {m})

\* datetime.utcnow() at line 65
NowChoices == { <<50000, 250000>> }

\* last-activity times the platform reports, around the cutoff c
Activities(c) ==
    { <<c[1] - 1, 999999>>, <<c[1], c[2]>>, <<c[1], c[2] + 1>>, <<c[1] + 1, 0>> }

\* largest project id on the pages received so far, 0 if none
MaxSeenId ==
    LET ids == UNION { {pages[k].json[i].id : i \in 1..Len(pages[k].json)}
                       : k \in 1..Len(pages) }
    IN  IF ids = {} THEN 0 ELSE CHOOSE x \in ids : \A y \in ids : x >= y

(* The project lists a page may hold: the listing is sorted by id          *)
(* ascending (order_by=id&sort=asc), so a page holds ids above those of the*)
(* pages before it, in ascending order.                                    *)
ProjectLists(lo, c) ==
    UNION { { [i \in 1..Cardinality(S) |->
                 [id |-> Ascending(S)[i],
                  last_activity_at |-> f[Ascending(S)[i]]]]
              : f \in [S -> Activities(c)] }
            : S \in {T \in SUBSET ((lo + 1)..MaxProjectId)
                       : Cardinality(T) <= MaxPerPage} }

\* cursor URLs the platform hands out
CursorUrls == { "https://x/page2", "https://x/projects?id_after=1" }

\* response headers without a Links field
PlainHeaders == [Content_Type |-> "application/json"]

\* response headers whose Links value has no <...> segment
BrokenLinks == { [Links |-> <<>>], [Links |-> <<"rel=\"next\"">>] }

\* response headers whose Links value names a next page
NextLinks ==
    { [Links |-> <<"<", u, ">", "; rel=\"next\"">>] : u \in CursorUrls }
    \cup { [Links |-> <<"<", "https://x/page2", ">", "; rel=\"next\", ",
                        "<", "https://x/page1", ">", "; rel=\"first\"">>] }

\* what the platform answers to the listing request for page number n
ListOutcomes(n) ==
    { [exc |-> "none",
       value |-> [status_code |-> 200, json |-> pl, headers |-> h]]
      : pl \in ProjectLists(MaxSeenId, four_hours_ago),
        h \in {PlainHeaders} \cup BrokenLinks
              \cup (IF n < MaxPages THEN NextLinks ELSE {}) }
    \cup { [exc |-> "none",
            value |-> [status_code |-> 500, json |-> <<>>,
                       headers |-> PlainHeaders]] }
    \cup HttpErrors

---------------------------------------------------------------------------
(* Project discovery: get_all_project_ids, lines 62-87. *)

\* line 64
InitialLink(narrow) ==
    <<"GITLAB_URI",
      "/api/v4/projects?pagination=keyset&per_page=50&order_by=id&sort=asc&simple=true">>
    \o (IF narrow THEN <<"&membership=true">> ELSE <<>>)

\* line 72, checked for the first page only
listing_failed_first_page_only(res) == res.status_code # 200 /\ pages = <<>>

\* line 72: res.status_code != 200
listing_failed(res) == res.status_code # 200

\* line 82, looking for a header named Link
has_next_page_other_name(headers) == "Link" \in DOMAIN headers

\* line 82: the loop goes on when 'Links' is in res.headers
has_next_page(headers) == "Links" \in DOMAIN headers

\* line 79, with the non-strict comparison
is_recent_or_equal(last_activity, cutoff) ==
    DatetimeAfter(last_activity, cutoff) \/ last_activity = cutoff

\* line 79: last_activity > four_hours_ago
is_recent(last_activity, cutoff) == DatetimeAfter(last_activity, cutoff)

\* lines 75-81: the ids a page adds to project_ids
RECURSIVE recent_ids(_, _)
recent_ids(json, cutoff) ==
    IF json = <<>> THEN <<>>
    ELSE (IF is_recent(json[1].last_activity_at, cutoff)
          THEN <<json[1].id>> ELSE <<>>)
         \o recent_ids(Tail(json), cutoff)

\* line 84 raises IndexError: split('<') has no element [1]
link_index_error(headers) == Len(Split(headers.Links, "<")) < 2

\* line 84, taking the text before the first '<' instead
next_link_wrong_part(headers) == Split(Split(headers.Links, "<")[1], ">")[1]

\* line 84: res.headers['Links'].split('<')[1].split('>')[0]
next_link(headers) == Split(Split(headers.Links, "<")[2], ">")[1]

---------------------------------------------------------------------------
(* Job aggregation: lines 90-128. *)

\* the job list the platform holds for a project and scope
JobList(pid, base, n) == [k \in 1..n |-> [id |-> pid * 100 + base + k]]

(* What the platform answers to a job-listing request: a job list with    *)
(* status 200, or another status, with or without a list in the body.     *)
JobOutcomes(pid, base) ==
    { [exc |-> "none",
       value |-> [status_code |-> 200, json |-> JobList(pid, base, n)]]
      : n \in 0..MaxJobs }
    \cup { [exc |-> "none", value |-> [status_code |-> 500, json |-> <<>>]],
           [exc |-> "none",
            value |-> [status_code |-> 202, json |-> JobList(pid, base, 1)]] }
    \cup HttpErrors

\* lines 93-97 without the status check
get_pending_jobs_keeps_body(res) == res.json

\* lines 93-97: get_pending_jobs after its get_request returned res
get_pending_jobs(res) == IF res.status_code # 200 THEN <<>> ELSE res.json

\* lines 103-107: get_running_jobs after its get_request returned res
get_running_jobs(res) == IF res.status_code # 200 THEN <<>> ELSE res.json

\* lines 117-119, dropping the last job of a list
extend_ids_drops_one(ids, jobs) ==
    IF Len(jobs) > 1 THEN ids \o [k \in 1..(Len(jobs) - 1) |-> jobs[k].id]
    ELSE ids

\* lines 117-119 and 120-122: ids.extend(job['id'] for job in jobs)
extend_ids(ids, jobs) ==
    IF Len(jobs) > 0 THEN ids \o [k \in 1..Len(jobs) |-> jobs[k].id] ELSE ids

---------------------------------------------------------------------------
(* Healthy instances: get_asg_healthy_instances_in_service, lines 131-143.*)

InstanceRecords ==
    [InstanceId : {"i-0"},
     HealthStatus : {"Healthy", "Unhealthy"},
     LifecycleState : {"InService", "Pending"}]

InstanceLists ==
    UNION { [1..n -> InstanceRecords] : n \in 0..MaxInstances }

\* what the autoscaling service answers
AsgOutcomes ==
    { [exc |-> "none",
       value |-> [AutoScalingGroups |->
                    << [AutoScalingGroupName |-> "ASG_NAME", Instances |-> l] >>]]
      : l \in InstanceLists }
    \cup { [exc |-> "none",
            value |-> [AutoScalingGroups |->
                         << [AutoScalingGroupName |-> "ASG_NAME"] >>]],
           [exc |-> "none", value |-> [AutoScalingGroups |-> <<>>]] }
    \cup SdkErrors

\* line 141 with "or" for "and"
counts_as_healthy_either(instance) ==
    instance.HealthStatus = "Healthy" \/ instance.LifecycleState = "InService"

\* line 141
counts_as_healthy(instance) ==
    instance.HealthStatus = "Healthy" /\ instance.LifecycleState = "InService"

\* lines 132, 137-143
RECURSIVE count_in_service(_)
count_in_service(instances) ==
    IF instances = <<>> THEN 0
    ELSE (IF counts_as_healthy(instances[1]) THEN 1 ELSE 0)
         + count_in_service(Tail(instances))

\* line 135: result['AutoScalingGroups'][0].get('Instances', [])
instances_of(res) == DictGet(res.AutoScalingGroups[1], "Instances", <<>>)

---------------------------------------------------------------------------
(* Load and publication: handler, lines 160-212. *)

RECURSIVE GCD(_, _)
GCD(a, b) == IF b = 0 THEN a ELSE GCD(b, a % b)

\* the quotient n / d of two naturals, d > 0, as a fraction in lowest terms
Quotient(n, d) ==
    LET g == GCD(n, d) IN [num |-> n \div g, den |-> d \div g]

\* line 162 raises ZeroDivisionError
load_divides_by_zero(running, healthy, rpi) ==
    healthy # 0 /\ healthy * rpi = 0

\* lines 160-162, leaving the capacity out of the divisor
overall_load_per_instance(running, healthy, rpi) ==
    IF healthy # 0 THEN Quotient(100 * running, healthy)
    ELSE [num |-> 100, den |-> 1]

\* lines 160-162
overall_load(running, healthy, rpi) ==
    IF healthy # 0 THEN Quotient(100 * running, healthy * rpi)
    ELSE [num |-> 100, den |-> 1]

\* time.time() at line 166
TimeChoices == { 50003, 50004 }

\* lines 171-211, reading the clock again for the last sample
MetricData_clock_read_again(ts, pending, running, load) ==
    << [MetricName |-> "NumberOfPendingJobs",
        Dimensions |-> << [Name |-> "Job Status", Value |-> "Pending"] >>,
        Timestamp |-> ts, Value |-> [num |-> pending, den |-> 1],
        Unit |-> "Count", StorageResolution |-> 60],
       [MetricName |-> "NumberOfRunningJobs",
        Dimensions |-> << [Name |-> "Job Status", Value |-> "Running"] >>,
        Timestamp |-> ts, Value |-> [num |-> running, den |-> 1],
        Unit |-> "Count", StorageResolution |-> 60],
       [MetricName |-> "RunnersOverallLoad",
        Dimensions |-> << [Name |-> "Runners Overall Load",
                           Value |-> "OverallLoadPercentage"] >>,
        Timestamp |-> ts + 1, Value |-> load,
        Unit |-> "Percent", StorageResolution |-> 60] >>

\* lines 171-211
MetricData(ts, pending, running, load) ==
    << [MetricName |-> "NumberOfPendingJobs",
        Dimensions |-> << [Name |-> "Job Status", Value |-> "Pending"] >>,
        Timestamp |-> ts, Value |-> [num |-> pending, den |-> 1],
        Unit |-> "Count", StorageResolution |-> 60],
       [MetricName |-> "NumberOfRunningJobs",
        Dimensions |-> << [Name |-> "Job Status", Value |-> "Running"] >>,
        Timestamp |-> ts, Value |-> [num |-> running, den |-> 1],
        Unit |-> "Count", StorageResolution |-> 60],
       [MetricName |-> "RunnersOverallLoad",
        Dimensions |-> << [Name |-> "Runners Overall Load",
                           Value |-> "OverallLoadPercentage"] >>,
        Timestamp |-> ts, Value |-> load,
        Unit |-> "Percent", StorageResolution |-> 60] >>

\* what the metrics backend answers
PutOutcomes == { [exc |-> "none", value |-> "ok"] } \cup SdkErrors

---------------------------------------------------------------------------
(* The invocation. *)

config == <<RUNNERS_PER_INSTANCE, NARROW_TO_MEMBERSHIP>>
disc == <<link, now, four_hours_ago, total_numb_of_projects, urls, pages>>
agg == <<idx, pending_jobs, pending_job_ids, running_job_ids, job_log>>
counts == <<n_pending_jobs, n_running_jobs>>
asg == <<result, healthy_instances_in_service>>
pub == <<runners_overall_load, timestamp, put_requests, published>>

Init ==
    /\ pc = "get_parameter"
    /\ error = "none"
    /\ RUNNERS_PER_INSTANCE \in RunnerCapacities
    /\ NARROW_TO_MEMBERSHIP \in BOOLEAN
    /\ tries = 0
    /\ wrap = [fn |-> "none", outcomes |-> <<>>, end |-> "returned"]
    /\ token = ""
    /\ link = <<>>
    /\ now = <<0, 0>>
    /\ four_hours_ago = <<0, 0>>
    /\ total_numb_of_projects = 0
    /\ project_ids = <<>>
    /\ urls = <<>>
    /\ pages = <<>>
    /\ idx = 0
    /\ pending_jobs = <<>>
    /\ pending_job_ids = <<>>
    /\ running_job_ids = <<>>
    /\ job_log = <<>>
    /\ n_pending_jobs = 0
    /\ n_running_jobs = 0
    /\ result = [AutoScalingGroups |-> <<>>]
    /\ healthy_instances_in_service = 0
    /\ runners_overall_load = [num |-> 0, den |-> 1]
    /\ timestamp = 0
    /\ put_requests = <<>>
    /\ published = <<>>
    /\ completed = <<>>
    /\ calls = [f \in {"get_parameter", "list_projects", "pending_jobs",
                       "running_jobs", "describe_auto_scaling_groups",
                       "put_metric_data"} |-> 0]

\* an exception leaves handler()
Raise(e) == pc' = "raised" /\ error' = e /\ tries' = 0

\* the frame of get_all_project_ids is gone once the handler moves on
DiscoveryFrameDropped ==
    /\ link' = <<>>
    /\ total_numb_of_projects' = 0
    /\ urls' = <<>>
    /\ pages' = <<>>

\* the frame of get_all_pending_and_running_job_ids is gone likewise
AggregationFrameDropped ==
    /\ project_ids' = <<>>
    /\ idx' = 0
    /\ pending_jobs' = <<>>
    /\ pending_job_ids' = <<>>
    /\ running_job_ids' = <<>>
    /\ job_log' = <<>>

\* the wrapper in progress sleeps and calls again
Retry == tries' = tries + 1 /\ UNCHANGED <<pc, error>>

(* handler, lines 147-150, and the start of get_all_project_ids, lines     *)
(* 63-69, reached through lines 152, 127 and 113.                          *)
GetParameter ==
    /\ pc = "get_parameter"
    /\ \E o \in SsmOutcomes :
        LET d == SdkDecision(o, tries + 1) IN
        /\ wrap' = Wrapped("get_parameter", o, d)
        /\ calls' = Entered("get_parameter")
        /\ \/ /\ d = "retry"
              /\ Retry
              /\ UNCHANGED <<token, link, now, four_hours_ago, completed>>
           \/ /\ d = "raise"
              /\ Raise(o.exc)
              /\ UNCHANGED <<token, link, now, four_hours_ago, completed>>
           \/ /\ d = "return"
              /\ token' = o.value.Parameter.Value
              /\ link' = InitialLink(NARROW_TO_MEMBERSHIP)
              /\ now' \in NowChoices
              /\ four_hours_ago' = MinusHours(now', 4)
              /\ completed' = Append(completed, "get_parameter")
              /\ pc' = "get_all_project_ids"
              /\ tries' = 0
              /\ UNCHANGED error
    /\ UNCHANGED <<config, total_numb_of_projects, project_ids, urls, pages,
                   agg, counts, asg, pub>>

(* get_all_project_ids, lines 70-87: one get_request of the loop and the   *)
(* rest of the loop body; on break, the return through lines 113-114 (and, *)
(* with no project ids, through lines 123, 127-128 and 152).               *)
ListProjects ==
    /\ pc = "get_all_project_ids"
    /\ \E o \in ListOutcomes(Len(pages) + 1) :
        LET d == HttpDecision(o, tries + 1)
            res == o.value
            ids == project_ids \o recent_ids(res.json, four_hours_ago)
        IN
        /\ wrap' = Wrapped("get_request", o, d)
        /\ calls' = Entered("list_projects")
        /\ urls' = IF tries = 0 THEN Append(urls, [url |-> link, token |-> token])
                   ELSE urls
        /\ \/ /\ d = "retry"
              /\ Retry
              /\ UNCHANGED <<link, total_numb_of_projects, project_ids, pages,
                             idx, completed>>
           \/ /\ d = "raise"
              /\ Raise(o.exc)
              /\ UNCHANGED <<link, total_numb_of_projects, project_ids, pages,
                             idx, completed>>
           \/ /\ d = "return"
              /\ listing_failed(res)
              /\ Raise("Exception: Error retrieving all the projects")
              /\ pages' = Append(pages, res)
              /\ UNCHANGED <<link, total_numb_of_projects, project_ids, idx,
                             completed>>
           \/ /\ d = "return"
              /\ ~listing_failed(res)
              /\ has_next_page(res.headers)
              /\ link_index_error(res.headers)
              /\ Raise("IndexError")
              /\ pages' = Append(pages, res)
              /\ total_numb_of_projects' = total_numb_of_projects + Len(res.json)
              /\ project_ids' = ids
              /\ UNCHANGED <<link, idx, completed>>
           \/ /\ d = "return"
              /\ ~listing_failed(res)
              /\ has_next_page(res.headers)
              /\ ~link_index_error(res.headers)
              /\ link' = next_link(res.headers)
              /\ pages' = Append(pages, res)
              /\ total_numb_of_projects' = total_numb_of_projects + Len(res.json)
              /\ project_ids' = ids
              /\ tries' = 0
              /\ UNCHANGED <<pc, error, idx, completed>>
           \/ /\ d = "return"
              /\ ~listing_failed(res)
              /\ ~has_next_page(res.headers)
              /\ pages' = Append(pages, res)
              /\ total_numb_of_projects' = total_numb_of_projects + Len(res.json)
              /\ project_ids' = ids
              /\ tries' = 0
              /\ IF ids = <<>>
                 THEN /\ pc' = "log_totals"
                      /\ completed' = completed \o
                            <<"get_all_project_ids",
                              "get_number_of_pending_and_running_jobs">>
                      /\ idx' = idx
                 ELSE /\ pc' = "get_pending_jobs"
                      /\ completed' = Append(completed, "get_all_project_ids")
                      /\ idx' = 1
              /\ UNCHANGED <<error, link>>
    /\ UNCHANGED <<config, token, now, four_hours_ago, pending_jobs, pending_job_ids,
                   running_job_ids, job_log, counts, asg, pub>>

(* get_all_pending_and_running_job_ids, line 115: get_pending_jobs for the *)
(* project at the loop position, lines 90-97.                              *)
GetPendingJobs ==
    /\ pc = "get_pending_jobs"
    /\ \E o \in JobOutcomes(project_ids[idx], 0) :
        LET d == HttpDecision(o, tries + 1)
            res == o.value
        IN
        /\ wrap' = Wrapped("get_request", o, d)
        /\ calls' = Entered("pending_jobs")
        /\ \/ /\ d = "retry"
              /\ Retry
              /\ UNCHANGED <<pending_jobs, job_log>>
           \/ /\ d = "raise"
              /\ Raise(o.exc)
              /\ UNCHANGED <<pending_jobs, job_log>>
           \/ /\ d = "return"
              /\ pending_jobs' = get_pending_jobs(res)
              /\ job_log' = Append(job_log, [project_id |-> project_ids[idx],
                                             scope |-> "pending", res |-> res])
              /\ pc' = "get_running_jobs"
              /\ tries' = 0
              /\ UNCHANGED error
    /\ DiscoveryFrameDropped
    /\ UNCHANGED <<config, token, now, four_hours_ago, project_ids, idx,
                   pending_job_ids, running_job_ids, counts, asg, pub, completed>>

(* get_all_pending_and_running_job_ids, lines 116-123: get_running_jobs    *)
(* for the same project, lines 100-107, and the rest of the loop body;     *)
(* after the last project, the return through lines 127-128 and 152.       *)
GetRunningJobs ==
    /\ pc = "get_running_jobs"
    /\ \E o \in JobOutcomes(project_ids[idx], 50) :
        LET d == HttpDecision(o, tries + 1)
            res == o.value
            running_jobs == get_running_jobs(res)
            pending_ids == extend_ids(pending_job_ids, pending_jobs)
            running_ids == extend_ids(running_job_ids, running_jobs)
        IN
        /\ wrap' = Wrapped("get_request", o, d)
        /\ calls' = Entered("running_jobs")
        /\ \/ /\ d = "retry"
              /\ Retry
              /\ UNCHANGED <<idx, pending_job_ids, running_job_ids, job_log,
                             counts, completed>>
           \/ /\ d = "raise"
              /\ Raise(o.exc)
              /\ UNCHANGED <<idx, pending_job_ids, running_job_ids, job_log,
                             counts, completed>>
           \/ /\ d = "return"
              /\ idx < Len(project_ids)
              /\ pending_job_ids' = pending_ids
              /\ running_job_ids' = running_ids
              /\ job_log' = Append(job_log, [project_id |-> project_ids[idx],
                                             scope |-> "running", res |-> res])
              /\ idx' = idx + 1
              /\ pc' = "get_pending_jobs"
              /\ tries' = 0
              /\ UNCHANGED <<error, counts, completed>>
           \/ /\ d = "return"
              /\ idx = Len(project_ids)
              /\ pending_job_ids' = pending_ids
              /\ running_job_ids' = running_ids
              /\ job_log' = Append(job_log, [project_id |-> project_ids[idx],
                                             scope |-> "running", res |-> res])
              /\ n_pending_jobs' = Len(pending_ids)
              /\ n_running_jobs' = Len(running_ids)
              /\ completed' = Append(completed,
                                     "get_number_of_pending_and_running_jobs")
              /\ pc' = "log_totals"
              /\ tries' = 0
              /\ UNCHANGED <<error, idx>>
    /\ UNCHANGED <<config, token, disc, project_ids, pending_jobs, asg, pub>>

(* handler, lines 153-154: the totals are logged; the frames of the        *)
(* functions that produced them are gone.                                  *)
LogTotals ==
    /\ pc = "log_totals"
    /\ pc' = "describe_auto_scaling_groups"
    /\ DiscoveryFrameDropped
    /\ AggregationFrameDropped
    /\ UNCHANGED <<config, error, tries, wrap, token, now, four_hours_ago,
                   counts, asg, pub, completed, calls>>

(* get_asg_healthy_instances_in_service, lines 131-143, and handler, lines *)
(* 157-166.                                                                *)
DescribeAutoScalingGroups ==
    /\ pc = "describe_auto_scaling_groups"
    /\ \E o \in AsgOutcomes :
        LET d == SdkDecision(o, tries + 1)
            res == o.value
            healthy == count_in_service(instances_of(res))
        IN
        /\ wrap' = Wrapped("describe_auto_scaling_groups", o, d)
        /\ calls' = Entered("describe_auto_scaling_groups")
        /\ \/ /\ d = "retry"
              /\ Retry
              /\ UNCHANGED <<asg, runners_overall_load, timestamp, completed>>
           \/ /\ d = "raise"
              /\ Raise(o.exc)
              /\ UNCHANGED <<asg, runners_overall_load, timestamp, completed>>
           \/ /\ d = "return"
              /\ res.AutoScalingGroups = <<>>
              /\ Raise("IndexError")
              /\ result' = res
              /\ UNCHANGED <<healthy_instances_in_service, runners_overall_load,
                             timestamp, completed>>
           \/ /\ d = "return"
              /\ res.AutoScalingGroups # <<>>
              /\ load_divides_by_zero(n_running_jobs, healthy, RUNNERS_PER_INSTANCE)
              /\ Raise("ZeroDivisionError")
              /\ result' = res
              /\ healthy_instances_in_service' = healthy
              /\ completed' = Append(completed,
                                     "get_asg_healthy_instances_in_service")
              /\ UNCHANGED <<runners_overall_load, timestamp>>
           \/ /\ d = "return"
              /\ res.AutoScalingGroups # <<>>
              /\ ~load_divides_by_zero(n_running_jobs, healthy, RUNNERS_PER_INSTANCE)
              /\ result' = res
              /\ healthy_instances_in_service' = healthy
              /\ runners_overall_load' =
                     overall_load(n_running_jobs, healthy, RUNNERS_PER_INSTANCE)
              /\ timestamp' \in TimeChoices
              /\ completed' = Append(completed,
                                     "get_asg_healthy_instances_in_service")
              /\ pc' = "put_metric_data"
              /\ tries' = 0
              /\ UNCHANGED error
    /\ UNCHANGED <<config, token, disc, project_ids, agg, counts, put_requests,
                   published>>

(* handler, lines 168-212: one call of cw_client.put_metric_data.  The     *)
(* backend stores the samples of a request it answers without error.       *)
PutMetricData ==
    /\ pc = "put_metric_data"
    /\ \E o \in PutOutcomes :
        LET d == SdkDecision(o, tries + 1)
            data == MetricData(timestamp, n_pending_jobs, n_running_jobs,
                               runners_overall_load)
        IN
        /\ wrap' = Wrapped("put_metric_data", o, d)
        /\ calls' = Entered("put_metric_data")
        /\ put_requests' = Append(put_requests, data)
        /\ \/ /\ d = "retry"
              /\ Retry
              /\ UNCHANGED <<published, completed>>
           \/ /\ d = "raise"
              /\ Raise(o.exc)
              /\ UNCHANGED <<published, completed>>
           \/ /\ d = "return"
              /\ published' = published \o data
              /\ completed' = Append(completed, "put_metric_data")
              /\ pc' = "returned"
              /\ tries' = 0
              /\ UNCHANGED error
    /\ result' = [AutoScalingGroups |-> <<>>]
    /\ UNCHANGED <<config, token, disc, project_ids, agg, counts,
                   healthy_instances_in_service, runners_overall_load, timestamp>>

Next ==
    \/ GetParameter
    \/ ListProjects
    \/ GetPendingJobs
    \/ GetRunningJobs
    \/ LogTotals
    \/ DescribeAutoScalingGroups
    \/ PutMetricData

Spec == Init /\ [][Next]_vars

---------------------------------------------------------------------------
(* Properties. *)

\* the failures the retry policy calls retryable
Retryable(fn, e) ==
    IF fn = "get_request" THEN e.exc = "Timeout"
    ELSE /\ e.exc = "ClientError"
         /\ "Error" \in DOMAIN e.response
         /\ "Code" \in DOMAIN e.response.Error
         /\ e.response.Error.Code = "RequestLimitExceeded"

\* discovery has returned its list and its frame is still there
DiscoveryReturned ==
    /\ pc \in {"get_pending_jobs", "log_totals"}
    /\ pages # <<>>

\* the text between the first "<" of a header value and the next ">"
FirstSegment(h) ==
    LET a == FirstIndex(h, "<", 1)
        b == FirstIndex(h, ">", a + 1)
    IN  SubSeq(h, a + 1, b - 1)

\* the ids of the projects on the pages whose last activity is strictly
\* after the invocation time minus four hours, in page order
ActiveIds(ps) ==
    LET all == Flatten([k \in 1..Len(ps) |-> ps[k].json])
        cutoff == <<now[1] - 14400, now[2]>>
        after(i) == \/ all[i].last_activity_at[1] > cutoff[1]
                    \/ /\ all[i].last_activity_at[1] = cutoff[1]
                       /\ all[i].last_activity_at[2] > cutoff[2]
        keep == {i \in 1..Len(all) : after(i)}
    IN  [k \in 1..Cardinality(keep) |-> all[Ascending(keep)[k]].id]

(* C1: project discovery requests the initial listing URL first and then   *)
(* exactly the URL in the first <...> segment of the previous response's   *)
(* Links header, stops at the first response without a Links header, and   *)
(* returns, in discovery order, the ids of exactly the projects on the     *)
(* traversed pages whose last activity is strictly after the invocation    *)
(* time minus 4 hours.                                                     *)
C1_DiscoveryPaging ==
    (pc = "get_all_project_ids" \/ pages # <<>>) =>
        /\ Len(urls) >= Len(pages)
        /\ Len(urls) <= Len(pages) + 1
        /\ urls # <<>> => urls[1].url = InitialLink(NARROW_TO_MEMBERSHIP)
        /\ \A i \in 2..Len(urls) :
              /\ pages[i - 1].status_code = 200
              /\ "Links" \in DOMAIN pages[i - 1].headers
              /\ urls[i].url = FirstSegment(pages[i - 1].headers.Links)
        /\ \A i \in 1..Len(pages) :
              (pages[i].status_code = 200
               /\ "Links" \notin DOMAIN pages[i].headers)
              => (i = Len(pages) /\ Len(urls) = Len(pages) /\ DiscoveryReturned)
        /\ DiscoveryReturned =>
              /\ "Links" \notin DOMAIN pages[Len(pages)].headers
              /\ project_ids = ActiveIds(pages)

\* C1's case: two pages traversed, a project kept and a project left out
C1_Witness ==
    /\ DiscoveryReturned
    /\ Len(pages) = 2
    /\ urls[2].url = <<"https://x/page2">>
    /\ project_ids = <<2>>
    /\ total_numb_of_projects = 2

(* C4: a wrapped call is attempted at most 8 times; every attempt but the  *)
(* last failed retryably; it returns exactly when an attempt succeeds; it  *)
(* raises exactly when an attempt fails non-retryably or the 8th attempt   *)
(* fails, and that exception leaves handler.                               *)
C4_RetryPolicy ==
    LET n == Len(wrap.outcomes)
        last == wrap.outcomes[n]
    IN  /\ n <= 8
        /\ tries = (IF wrap.end = "retrying" THEN n ELSE 0)
        /\ \A i \in 1..(n - 1) : Retryable(wrap.fn, wrap.outcomes[i])
        /\ n >= 1 =>
              /\ wrap.end = "returned" <=> last.exc = "none"
              /\ wrap.end = "retrying" <=>
                     (Retryable(wrap.fn, last) /\ n < 8)
              /\ wrap.end = "raised" <=>
                     (last.exc # "none"
                      /\ (~Retryable(wrap.fn, last) \/ n = 8))
              /\ wrap.end = "raised" => (pc = "raised" /\ error = last.exc)

\* C4's case: seven retryable failures, then success on attempt 8
C4_Witness ==
    /\ Len(wrap.outcomes) = 8
    /\ wrap.end = "returned"
    /\ wrap.fn = "put_metric_data"
    /\ pc = "returned"

\* nothing after project discovery has been called or published
NothingAfterDiscovery ==
    /\ calls["pending_jobs"] = 0
    /\ calls["running_jobs"] = 0
    /\ calls["describe_auto_scaling_groups"] = 0
    /\ calls["put_metric_data"] = 0
    /\ job_log = <<>>
    /\ put_requests = <<>>
    /\ published = <<>>

(* C2: once a project-listing request, on whatever page, returned a status *)
(* other than 200, handler has raised and stays there: no job request, no  *)
(* describe and no publication was or will be made, whatever ids the       *)
(* earlier pages gave.                                                     *)
C2_ListingFailureAborts ==
    \A i \in 1..Len(pages) :
        pages[i].status_code # 200 =>
            /\ i = Len(pages)
            /\ pc = "raised"
            /\ error = "Exception: Error retrieving all the projects"
            /\ NothingAfterDiscovery
            /\ ~ENABLED Next

\* C2's case: the second page fails after the first gave an active project
C2_Witness ==
    /\ Len(pages) = 2
    /\ pages[2].status_code = 500
    /\ project_ids # <<>>
    /\ pc = "raised"

\* aggregation has returned its counts and its frame is still there
AggregationReturned ==
    /\ pc = "log_totals"
    /\ job_log # <<>>

\* the lengths of the job lists returned with status 200 for a scope
ListedSizes(scope) ==
    [k \in 1..Len(job_log) |->
        IF job_log[k].scope = scope /\ job_log[k].res.status_code = 200
        THEN Len(job_log[k].res.json) ELSE 0]

\* the job-listing calls made so far are those of the loop over project_ids
QueriedInOrder ==
    \A k \in 1..Len(job_log) :
        /\ job_log[k].project_id = project_ids[(k + 1) \div 2]
        /\ job_log[k].scope = (IF k % 2 = 1 THEN "pending" ELSE "running")

\* the ids in a list of job ids that belong to project pid
IdsOf(ids, pid) == {k \in 1..Len(ids) : ids[k] \div 100 = pid}

(* C3 as stated: a project one of whose two job-listing requests returned  *)
(* a non-200 status contributes no pending and no running job.             *)
C3_FailedProjectContributesNothing ==
    \A k \in 1..Len(job_log) :
        job_log[k].res.status_code # 200 =>
            /\ IdsOf(pending_job_ids, job_log[k].project_id) = {}
            /\ IdsOf(running_job_ids, job_log[k].project_id) = {}

(* C3 amended: a non-200 job-listing response does not abort the           *)
(* invocation, every discovered project is still queried for both scopes,  *)
(* and the failed request's scope gets no job of that project; the other   *)
(* scope of the project still counts the jobs its own request returned.    *)
C3_FailedScopeContributesNothing ==
    /\ QueriedInOrder
    /\ \A k \in 1..Len(job_log) :
          job_log[k].res.status_code # 200 =>
              IdsOf(IF job_log[k].scope = "pending"
                    THEN pending_job_ids ELSE running_job_ids,
                    job_log[k].project_id) = {}
    /\ (pc = "raised" /\ calls["pending_jobs"] > 0
        /\ calls["describe_auto_scaling_groups"] = 0) => wrap.end = "raised"
    /\ AggregationReturned =>
          /\ Len(job_log) = 2 * Len(project_ids)
          /\ n_pending_jobs = SumSeq(ListedSizes("pending"))
          /\ n_running_jobs = SumSeq(ListedSizes("running"))

\* C3's case: the first project's pending request fails, its running
\* request returns two jobs, and the second project is still queried
C3_Witness ==
    /\ AggregationReturned
    /\ Len(job_log) = 4
    /\ job_log[1].res.status_code = 500
    /\ Len(job_log[2].res.json) = 2
    /\ job_log[3].res.status_code = 202
    /\ n_pending_jobs = 0
    /\ n_running_jobs = 3

(* C7: when every job-listing request returned 200, the pending and the    *)
(* running count are the sums of the lengths of the projects' pending and  *)
(* running job lists, and the requests made are one per scope for each     *)
(* discovered project and for no other.                                    *)
C7_AggregatedCounts ==
    /\ AggregationReturned =>
          /\ calls["pending_jobs"] = Len(project_ids)
          /\ calls["running_jobs"] = Len(project_ids)
          /\ \A k \in 1..Len(project_ids) :
                /\ job_log[2 * k - 1].project_id = project_ids[k]
                /\ job_log[2 * k - 1].scope = "pending"
                /\ job_log[2 * k].project_id = project_ids[k]
                /\ job_log[2 * k].scope = "running"
          /\ (\A k \in 1..Len(job_log) : job_log[k].res.status_code = 200) =>
                /\ n_pending_jobs =
                     SumSeq([k \in 1..Len(project_ids) |->
                                Len(job_log[2 * k - 1].res.json)])
                /\ n_running_jobs =
                     SumSeq([k \in 1..Len(project_ids) |->
                                Len(job_log[2 * k].res.json)])
    /\ (DiscoveryReturned /\ project_ids = <<>>) =>
          /\ n_pending_jobs = 0
          /\ n_running_jobs = 0
          /\ calls["pending_jobs"] = 0
          /\ calls["running_jobs"] = 0

\* C7's case: pending lists of sizes 2 and 0, running lists of sizes 1 and 2
C7_Witness ==
    /\ AggregationReturned
    /\ project_ids = <<1, 2>>
    /\ \A k \in 1..4 : job_log[k].res.status_code = 200
    /\ Len(job_log[1].res.json) = 2
    /\ Len(job_log[3].res.json) = 0
    /\ Len(job_log[2].res.json) = 1
    /\ Len(job_log[4].res.json) = 2
    /\ n_pending_jobs = 2
    /\ n_running_jobs = 3

\* the instance list of the describe result handler last received
DescribedInstances ==
    IF "Instances" \in DOMAIN result.AutoScalingGroups[1]
    THEN result.AutoScalingGroups[1].Instances ELSE <<>>

(* C8: the healthy-instance count is the number of instances of the        *)
(* described group that are both Healthy and InService; a group without an *)
(* Instances entry gives 0.                                                *)
C8_HealthyInstanceCount ==
    result.AutoScalingGroups # <<>> =>
        /\ healthy_instances_in_service =
             Cardinality({k \in 1..Len(DescribedInstances) :
                 /\ DescribedInstances[k].HealthStatus = "Healthy"
                 /\ DescribedInstances[k].LifecycleState = "InService"})
        /\ "Instances" \notin DOMAIN result.AutoScalingGroups[1]
               => healthy_instances_in_service = 0

\* C8's case: a Healthy instance that is Pending beside a Healthy one in
\* service
C8_Witness ==
    /\ result.AutoScalingGroups # <<>>
    /\ "Instances" \in DOMAIN result.AutoScalingGroups[1]
    /\ Len(result.AutoScalingGroups[1].Instances) = 2
    /\ result.AutoScalingGroups[1].Instances[1].HealthStatus = "Healthy"
    /\ result.AutoScalingGroups[1].Instances[1].LifecycleState = "Pending"
    /\ result.AutoScalingGroups[1].Instances[2].HealthStatus = "Healthy"
    /\ result.AutoScalingGroups[1].Instances[2].LifecycleState = "InService"
    /\ healthy_instances_in_service = 1
    /\ pc = "put_metric_data"

\* handler has computed the load
LoadComputed == pc \in {"put_metric_data", "returned"} \/ put_requests # <<>>

(* C6: the load handler computes is 100 with no healthy instance in        *)
(* service, whatever the running count, and otherwise the quotient         *)
(* 100 * running_jobs / (healthy_instances * runners_per_instance), which  *)
(* is 50 for 4 running jobs on 2 instances of capacity 4; it is the value  *)
(* of the third sample.                                                    *)
C6_LoadValue ==
    LoadComputed =>
        /\ runners_overall_load.den > 0
        /\ healthy_instances_in_service = 0 =>
              runners_overall_load = [num |-> 100, den |-> 1]
        /\ healthy_instances_in_service # 0 =>
              runners_overall_load.num
                  * (healthy_instances_in_service * RUNNERS_PER_INSTANCE)
              = 100 * n_running_jobs * runners_overall_load.den
        /\ (healthy_instances_in_service = 2 /\ RUNNERS_PER_INSTANCE = 4
            /\ n_running_jobs = 4) =>
              runners_overall_load = [num |-> 50, den |-> 1]
        /\ \A k \in 1..Len(put_requests) :
              put_requests[k][3].Value = runners_overall_load

\* C6's case: 4 running jobs on 2 healthy instances of capacity 4
C6_Witness ==
    /\ pc = "put_metric_data"
    /\ healthy_instances_in_service = 2
    /\ RUNNERS_PER_INSTANCE = 4
    /\ n_running_jobs = 4
    /\ runners_overall_load = [num |-> 50, den |-> 1]

\* the stages that come before the publication, in their order
StagesBeforePublication ==
    <<"get_parameter", "get_all_project_ids",
      "get_number_of_pending_and_running_jobs",
      "get_asg_healthy_instances_in_service">>

(* C5: the backend holds no sample or exactly the three samples (pending   *)
(* count, running count, load) of one request; every request handed to     *)
(* put_metric_data carries these three with one timestamp and is made only *)
(* after the token fetch, discovery, aggregation and describe ended        *)
(* without error; an invocation that raised has published nothing.         *)
C5_PublicationAllOrNothing ==
    /\ Len(published) \in {0, 3}
    /\ calls["put_metric_data"] <= 1
    /\ \A k \in 1..Len(put_requests) :
          /\ Len(put_requests[k]) = 3
          /\ put_requests[k][1].MetricName = "NumberOfPendingJobs"
          /\ put_requests[k][1].Value = [num |-> n_pending_jobs, den |-> 1]
          /\ put_requests[k][2].MetricName = "NumberOfRunningJobs"
          /\ put_requests[k][2].Value = [num |-> n_running_jobs, den |-> 1]
          /\ put_requests[k][3].MetricName = "RunnersOverallLoad"
          /\ \A j \in 1..3 : put_requests[k][j].Timestamp = timestamp
          /\ put_requests[k] = put_requests[1]
    /\ put_requests # <<>> =>
          /\ Len(completed) >= 4
          /\ SubSeq(completed, 1, 4) = StagesBeforePublication
    /\ published # <<>> =>
          /\ published = put_requests[Len(put_requests)]
          /\ pc = "returned"
    /\ pc = "returned" => Len(published) = 3
    /\ pc = "raised" => published = <<>>

\* C5's case: the publication succeeds on its second attempt
C5_Witness ==
    /\ pc = "returned"
    /\ Len(put_requests) = 2
    /\ Len(published) = 3
    /\ published[1].Timestamp = published[3].Timestamp

(* C9 as stated, for responses whose Links header, when there is one,      *)
(* names a next page: a 200 listing response with no cursor header or with *)
(* an empty project list ends discovery cleanly with the ids collected so  *)
(* far.                                                                    *)
C9_EmptyPageOrHeaderEndsDiscovery ==
    \A i \in 1..Len(pages) :
        (/\ pages[i].status_code = 200
         /\ \/ "Links" \notin DOMAIN pages[i].headers
            \/ /\ pages[i].json = <<>>
               /\ FirstIndex(pages[i].headers.Links, "<", 1) # 0)
        => (i = Len(pages) /\ DiscoveryReturned)

(* C9 amended: a 200 listing response without a Links header ends          *)
(* discovery cleanly with the ids collected so far, possibly none, whether *)
(* or not its project list is empty; an empty project list under a Links   *)
(* header that names a next page does not end it: that page is requested   *)
(* next; a Links header with no "<" in it, the empty one included, raises  *)
(* IndexError.                                                             *)
C9_MissingHeaderEndsDiscovery ==
    \A i \in 1..Len(pages) :
        pages[i].status_code = 200 =>
            /\ "Links" \notin DOMAIN pages[i].headers =>
                  /\ i = Len(pages)
                  /\ DiscoveryReturned
                  /\ error = "none"
                  /\ Len(project_ids) <= total_numb_of_projects
                  /\ project_ids = ActiveIds(SubSeq(pages, 1, i))
            /\ ("Links" \in DOMAIN pages[i].headers
                /\ FirstIndex(pages[i].headers.Links, "<", 1) = 0) =>
                  /\ i = Len(pages)
                  /\ pc = "raised"
                  /\ error = "IndexError"
            /\ ("Links" \in DOMAIN pages[i].headers
                /\ FirstIndex(pages[i].headers.Links, "<", 1) # 0
                /\ pages[i].json = <<>>) =>
                  /\ pc \in {"get_all_project_ids", "raised"}
                     \/ i < Len(pages)
                  /\ i = Len(pages) =>
                        link = FirstSegment(pages[i].headers.Links)
                  /\ i < Len(pages) =>
                        urls[i + 1].url = FirstSegment(pages[i].headers.Links)

\* C9's case: the only page is empty and has no Links header: no ids
C9_Witness ==
    /\ DiscoveryReturned
    /\ Len(pages) = 1
    /\ pages[1].json = <<>>
    /\ project_ids = <<>>
    /\ pc = "log_totals"

(* C10: once the healthy-instance count is known, handler computes a load  *)
(* and goes on to the publication, whatever the runner capacity: it never  *)
(* raises ZeroDivisionError.                                               *)
C10_LoadNeverAborts ==
    /\ error # "ZeroDivisionError"
    /\ (Len(completed) >= 4 /\ pc = "raised") => put_requests # <<>>

===========================================================================
